---------------------------- MODULE Spec2Model ----------------------------
(***************************************************************************)
(* Model of the booking engine, backend/src/services/booking.service.ts.   *)
(*                                                                         *)
(* The store is the three tables the service reads and writes              *)
(* (storage_items, orders, order_items) plus the read-only user_profiles.  *)
(* Every handler is a sequence of awaited store calls; each store call is  *)
(* one step of a call record (pc, loop index, locals).  Run executes a     *)
(* call to completion: the actions of Spec apply a whole handler at once,  *)
(* the actions of ConcSpec interleave the store calls of several handlers. *)
(***************************************************************************)
EXTENDS Integers, Sequences, FiniteSets, TLC

\* ------------------------------------------------------------------ bounds
MaxOrders     == 2  \* Spec: rows of orders a behaviour creates
MaxAuthOrders == 1  \* AuthSpec: rows of orders a behaviour creates
MaxExcess     == 1  \* returnItems is explored while available <= total + MaxExcess
MaxFault      == 10 \* FaultSpec: the store call of a handler that fails
MaxFaultOrders == 1 \* FaultSpec: rows of orders a behaviour creates
MaxCalls      == 2  \* ConcSpec: handlers in flight at once
MaxDay        == 2  \* the days a claim is looked at are 1..MaxDay
MaxRows       == 4  \* updateBooking is explored while order_items has <= MaxRows rows
MaxRandom     == 2  \* NumberSpec: the random part of an order number is in 0..MaxRandom

\* ------------------------------------------------------------- the world
Items == {"i1", "i2"}
Users == {"alice", "bob", "admin", "vera"}
NoItem == "-"
NoRow  == [none |-> TRUE]   \* data: null
Undefined == "undefined"    \* a property the selected row does not carry

\* user_profiles.role, read by the handlers
user_profiles ==
  [u \in Users |-> [id |-> u,
                    role |-> CASE u = "admin" -> "admin"
                               [] u = "vera"  -> "superVera"
                               [] OTHER       -> "user"]]

\* storage_items.items_number_total of the inventory the model starts with
ItemsNumberTotal == [i \in Items |-> IF i = "i1" THEN 2 ELSE 1]

VARIABLES
  storage_items,  \* item id -> [items_number_total, items_number_available]
  orders,         \* sequence of order rows; the id of a row is its index
  order_items,    \* sequence of order_items rows, in insertion order
  calls,          \* ConcSpec: the handlers in flight, by slot
  last            \* the call that completed last, with its result

vars == <<storage_items, orders, order_items, calls, last>>

\* the store as one value, handed to the handlers
Db == [storage_items |-> storage_items, orders |-> orders,
       order_items |-> order_items]

\* ---------------------------------------------------------------- helpers
RECURSIVE SumQuantity(_)
SumQuantity(rows) ==
  IF rows = <<>> THEN 0
  ELSE Head(rows).quantity + SumQuantity(Tail(rows))

\* row.field as JavaScript reads it
Field(row, f) == IF f \in DOMAIN row THEN row[f] ELSE Undefined

\* A variant of Overlaps that leaves out the boundary day: C14_OverlapClosed
\* does not hold of it.
Overlaps_halfOpen(row, start_date, end_date) ==
  row.start_date <= end_date /\ row.end_date > start_date

\* .or(`and(start_date.lte.${end_date},end_date.gte.${start_date})`)
Overlaps(row, start_date, end_date) ==
  row.start_date <= end_date /\ row.end_date >= start_date

\* Math.ceil((end - start) / one day), on whole days
TotalDays(start_date, end_date) == end_date - start_date

\* the result of a handler: what it returns or throws
Ok(msg)            == [status |-> "ok", message |-> msg, item |-> NoItem]
Throw(kind, msg)   == [status |-> kind, message |-> msg, item |-> NoItem]
ThrowItem(kind, msg, i) == [status |-> kind, message |-> msg, item |-> i]
Running            == [status |-> "running", message |-> "", item |-> NoItem]

\* A call: the arguments of a handler and its position in the handler's code.
\*   fault: the index of the store call that returns an error (0: none)
\*   n:     store calls made so far
\*   random: what Math.random() yields in this call (0 unless the
\*           specification draws it)
\*   conn:  the connection the request came in on (NoItem unless the
\*          specification follows requests)
NewCall(op, userId, orderId, items, fault) ==
  [op |-> op, userId |-> userId, orderId |-> orderId, items |-> items,
   fault |-> fault, n |-> 0, pc |-> "start", k |-> 1,
   booked |-> 0, avail |-> 0, rows |-> <<>>, order |-> NoRow,
   role |-> Undefined, res |-> Running, random |-> 0, conn |-> NoItem]

\* the next store call of c fails
Fails(c) == c.fault = c.n + 1
\* c after one more store call
Tick(c) == [c EXCEPT !.n = c.n + 1]
Goto(c, pc) == [Tick(c) EXCEPT !.pc = pc]
Finish(c, res) == [Tick(c) EXCEPT !.pc = "done", !.res = res]
St(db, c) == [db |-> db, c |-> c]


\* --------------------------------------------------------- 3. createBooking
\* the request's k-th line item
Item(c) == c.items[c.k]

\* the overlap query of the availability check: every order_items row of the
\* item whose range meets the requested one (no filter on status)
OverlappingOrders(db, item_id, start_date, end_date) ==
  SelectSeq(db.order_items,
            LAMBDA r : r.item_id = item_id /\ Overlaps(r, start_date, end_date))

\* user_profiles lookup
createBooking_user(db, c) ==
  IF Fails(c) \/ c.userId \notin DOMAIN user_profiles
  THEN St(db, Finish(c, Throw("BadRequestException", "User not found")))
  ELSE St(db, Goto(c, IF Len(c.items) = 0 THEN "insertOrder" ELSE "overlap"))

\* select quantity of the overlapping order_items, summed
createBooking_overlap(db, c) ==
  IF Fails(c)
  THEN St(db, Finish(c, Throw("BadRequestException",
                              "Could not check overlapping bookings")))
  ELSE St(db, [Goto(c, "item") EXCEPT !.booked =
                 SumQuantity(OverlappingOrders(db, Item(c).item_id,
                                Item(c).start_date, Item(c).end_date))])

\* A variant of createBooking_item that compares only the first line item
\* with the total: C3_CreateAllOrNothing does not hold of it.
createBooking_item_firstOnly(db, c) ==
  IF Fails(c) \/ Item(c).item_id \notin DOMAIN db.storage_items
  THEN St(db, Finish(c, Throw("BadRequestException", "Item data not found")))
  ELSE IF c.k = 1 /\ c.booked + Item(c).quantity
                       > db.storage_items[Item(c).item_id].items_number_total
  THEN St(db, Finish(c, ThrowItem("BadRequestException",
                   "Not enough quantity available for item", Item(c).item_id)))
  ELSE IF c.k < Len(c.items)
  THEN St(db, [Goto(c, "overlap") EXCEPT !.k = c.k + 1])
  ELSE St(db, [Goto(c, "insertOrder") EXCEPT !.k = 1])

\* A variant of createBooking_item that refuses a request for exactly what
\* is left: C16_CreateIffAvailable does not hold of it.
createBooking_item_strict(db, c) ==
  IF Fails(c) \/ Item(c).item_id \notin DOMAIN db.storage_items
  THEN St(db, Finish(c, Throw("BadRequestException", "Item data not found")))
  ELSE IF c.booked + Item(c).quantity
            >= db.storage_items[Item(c).item_id].items_number_total
  THEN St(db, Finish(c, ThrowItem("BadRequestException",
                   "Not enough quantity available for item", Item(c).item_id)))
  ELSE IF c.k < Len(c.items)
  THEN St(db, [Goto(c, "overlap") EXCEPT !.k = c.k + 1])
  ELSE St(db, [Goto(c, "insertOrder") EXCEPT !.k = 1])

\* select items_number_total, then the availability check
createBooking_item(db, c) ==
  IF Fails(c) \/ Item(c).item_id \notin DOMAIN db.storage_items
  THEN St(db, Finish(c, Throw("BadRequestException", "Item data not found")))
  ELSE IF c.booked + Item(c).quantity
            > db.storage_items[Item(c).item_id].items_number_total
  THEN St(db, Finish(c, ThrowItem("BadRequestException",
                   "Not enough quantity available for item", Item(c).item_id)))
  ELSE IF c.k < Len(c.items)
  THEN St(db, [Goto(c, "overlap") EXCEPT !.k = c.k + 1])
  ELSE St(db, [Goto(c, "insertOrder") EXCEPT !.k = 1])

\* `ORD-${datePart}-${randomPart}`: within a day the number is its random
\* part, the digits of floor(Math.random() * 10000)
generateOrderNumber(c) == c.random

\* insert into orders, status pending
createBooking_insertOrder(db, c) ==
  IF Fails(c)
  THEN St(db, Finish(c, Throw("BadRequestException", "Could not create order")))
  ELSE LET row == [user_id |-> c.userId, status |-> "pending",
                   order_number |-> generateOrderNumber(c)]
           db2 == [db EXCEPT !.orders = Append(db.orders, row)]
           c2  == [c EXCEPT !.orderId = Len(db.orders) + 1, !.k = 1]
       IN IF Len(c.items) = 0
          THEN St(db2, Finish(c2, Ok("order")))
          ELSE St(db2, Goto(c2, "location"))

\* select location_id of the item
createBooking_location(db, c) ==
  IF Fails(c) \/ Item(c).item_id \notin DOMAIN db.storage_items
  THEN St(db, Finish(c, ThrowItem("BadRequestException",
                   "Could not fetch location_id for item", Item(c).item_id)))
  ELSE St(db, Goto(c, "insertItem"))

\* insert into order_items: the table is kept grouped by order_id, the rows of
\* one order in insertion order (what every query of the service can observe)
InsertOrderItem(db, row) ==
  [db EXCEPT !.order_items =
     SelectSeq(db.order_items, LAMBDA r : r.order_id <= row.order_id)
       \o <<row>>
       \o SelectSeq(db.order_items, LAMBDA r : r.order_id > row.order_id)]

\* the order_items row written for a requested line item
OrderItemRow(orderId, item) ==
  [order_id |-> orderId, item_id |-> item.item_id, quantity |-> item.quantity,
   start_date |-> item.start_date, end_date |-> item.end_date,
   total_days |-> TotalDays(item.start_date, item.end_date),
   status |-> "pending"]

\* insert into order_items
createBooking_insertItem(db, c) ==
  IF Fails(c)
  THEN St(db, Finish(c, Throw("BadRequestException",
                              "Could not create order items")))
  ELSE LET db2 == InsertOrderItem(db, OrderItemRow(c.orderId, Item(c)))
       IN IF c.k < Len(c.items)
          THEN St(db2, [Goto(c, "location") EXCEPT !.k = c.k + 1])
          ELSE St(db2, Finish(c, Ok("order")))

createBookingStep(db, c) ==
  CASE c.pc = "start"       -> createBooking_user(db, c)
    [] c.pc = "overlap"     -> createBooking_overlap(db, c)
    [] c.pc = "item"        -> createBooking_item(db, c)
    [] c.pc = "insertOrder" -> createBooking_insertOrder(db, c)
    [] c.pc = "location"    -> createBooking_location(db, c)
    [] c.pc = "insertItem"  -> createBooking_insertItem(db, c)

\* -------------------------------------------------------- 4. confirmBooking
\* the k-th of the rows the handler loaded
Row(c) == c.rows[c.k]

OrderItemsOf(db, orderId) ==
  SelectSeq(db.order_items, LAMBDA r : r.order_id = orderId)

\* select item_id, quantity from order_items where order_id = orderId
confirmBooking_items(db, c) ==
  IF Fails(c)
  THEN St(db, Finish(c, Throw("BadRequestException",
                              "Could not load order items")))
  ELSE LET rows == OrderItemsOf(db, c.orderId) IN
       St(db, [Goto(c, IF rows = <<>> THEN "order" ELSE "stock")
                 EXCEPT !.rows = rows, !.k = 1])

\* A variant of confirmBooking_stock that waits for stock instead of
\* throwing when the available count is short: C28_EveryCallCompletes does
\* not hold of it.
confirmBooking_stock_wait(db, c) ==
  IF Fails(c) \/ Row(c).item_id \notin DOMAIN db.storage_items
  THEN St(db, Finish(c, Throw("BadRequestException",
                              "Could not fetch storage item details")))
  ELSE LET available ==
             db.storage_items[Row(c).item_id].items_number_available IN
       IF available < Row(c).quantity
       THEN St(db, c)
       ELSE St(db, [Goto(c, "reduce") EXCEPT !.avail = available])

\* select items_number_available, then the stock check
confirmBooking_stock(db, c) ==
  IF Fails(c) \/ Row(c).item_id \notin DOMAIN db.storage_items
  THEN St(db, Finish(c, Throw("BadRequestException",
                              "Could not fetch storage item details")))
  ELSE LET available ==
             db.storage_items[Row(c).item_id].items_number_available IN
       IF available < Row(c).quantity
       THEN St(db, Finish(c, ThrowItem("BadRequestException",
                  "Not enough available quantity for item", Row(c).item_id)))
       ELSE St(db, [Goto(c, "reduce") EXCEPT !.avail = available])

\* A variant of confirmBooking_reduce that subtracts the quantity from the
\* item's total: C11_ConfirmEffects does not hold of it.
confirmBooking_reduce_fromTotal(db, c) ==
  IF Fails(c)
  THEN St(db, Finish(c, ThrowItem("BadRequestException",
                  "Failed to reduce stock for item", Row(c).item_id)))
  ELSE LET db2 == [db EXCEPT
                     !.storage_items[Row(c).item_id].items_number_available =
                        db.storage_items[Row(c).item_id].items_number_total
                          - Row(c).quantity]
       IN IF c.k < Len(c.rows)
          THEN St(db2, [Goto(c, "stock") EXCEPT !.k = c.k + 1])
          ELSE St(db2, Goto(c, "order"))

\* update storage_items set items_number_available = read value - quantity
confirmBooking_reduce(db, c) ==
  IF Fails(c)
  THEN St(db, Finish(c, ThrowItem("BadRequestException",
                  "Failed to reduce stock for item", Row(c).item_id)))
  ELSE LET db2 == [db EXCEPT
                     !.storage_items[Row(c).item_id].items_number_available =
                        c.avail - Row(c).quantity]
       IN IF c.k < Len(c.rows)
          THEN St(db2, [Goto(c, "stock") EXCEPT !.k = c.k + 1])
          ELSE St(db2, Goto(c, "order"))

\* update orders set status = ... where id = orderId
SetOrderStatus(db, orderId, status) ==
  IF orderId \in DOMAIN db.orders
  THEN [db EXCEPT !.orders[orderId].status = status]
  ELSE db

\* update order_items set status = ... where order_id = orderId
SetOrderItemsStatus(db, orderId, status) ==
  [db EXCEPT !.order_items =
     [j \in DOMAIN db.order_items |->
        IF db.order_items[j].order_id = orderId
        THEN [db.order_items[j] EXCEPT !.status = status]
        ELSE db.order_items[j]]]

confirmBooking_order(db, c) ==
  IF Fails(c)
  THEN St(db, Finish(c, Throw("BadRequestException",
                              "Could not confirm booking")))
  ELSE St(SetOrderStatus(db, c.orderId, "confirmed"), Goto(c, "orderItems"))

confirmBooking_orderItems(db, c) ==
  IF Fails(c)
  THEN St(db, Finish(c, Throw("BadRequestException",
                              "Could not confirm order items")))
  ELSE St(SetOrderItemsStatus(db, c.orderId, "confirmed"),
          Finish(c, Ok("Booking confirmed")))

confirmBookingStep(db, c) ==
  CASE c.pc = "start"      -> confirmBooking_items(db, c)
    [] c.pc = "stock"      -> confirmBooking_stock(db, c)
    [] c.pc = "reduce"     -> confirmBooking_reduce(db, c)
    [] c.pc = "order"      -> confirmBooking_order(db, c)
    [] c.pc = "orderItems" -> confirmBooking_orderItems(db, c)

\* ------------------------------------------- the lookups of handlers 5 to 8
\* select user_id from orders where id = orderId, single(): the row carries
\* user_id alone
SelectOrderUserId(db, c) ==
  IF Fails(c) \/ c.orderId \notin DOMAIN db.orders
  THEN NoRow
  ELSE [user_id |-> db.orders[c.orderId].user_id]

\* select role from user_profiles where id = userId, single()
SelectUserRole(c) ==
  IF Fails(c) \/ c.userId \notin DOMAIN user_profiles
  THEN NoRow
  ELSE [role |-> user_profiles[c.userId].role]

\* A variant of IsAdminRole that knows the role admin only: C6_CancelPending
\* does not hold of it.
IsAdminRole_adminOnly(role) == role = "admin"

IsAdminRole(role) == role = "admin" \/ role = "superVera"

\* delete from order_items where order_id = orderId
DeleteOrderItems(db, orderId) ==
  [db EXCEPT !.order_items =
     SelectSeq(db.order_items, LAMBDA r : r.order_id # orderId)]

\* --------------------------------------------------------- 5. updateBooking
updateBooking_order(db, c) ==
  LET order == SelectOrderUserId(db, c) IN
  IF order = NoRow
  THEN St(db, Finish(c, Throw("BadRequestException", "Order not found")))
  ELSE St(db, [Goto(c, "user") EXCEPT !.order = order])

\* A variant of updateBooking_user with no permission check:
\* C21_UpdateNeedsOwnerOrAdmin does not hold of it.
updateBooking_user_anyone(db, c) ==
  LET user == SelectUserRole(c) IN
  IF user = NoRow
  THEN St(db, Finish(c, Throw("BadRequestException", "User not found")))
  ELSE St(db, Goto(c, "delete"))

\* the role lookup and the two permission checks
updateBooking_user(db, c) ==
  LET user == SelectUserRole(c) IN
  IF user = NoRow
  THEN St(db, Finish(c, Throw("BadRequestException", "User not found")))
  ELSE LET isAdmin == IsAdminRole(user.role)
           isOwner == c.order.user_id = c.userId
       IN IF ~(user.role = "admin" \/ c.userId = c.order.user_id
                 \/ user.role = "service_role")
          THEN St(db, Finish(c, Throw("ForbiddenException",
                                      "Not allowed to update this booking")))
          ELSE IF ~isAdmin /\ ~isOwner
          THEN St(db, Finish(c, Throw("ForbiddenException",
                                      "Not allowed to update this booking")))
          ELSE St(db, Goto(c, "delete"))

\* the delete's error is not looked at
updateBooking_delete(db, c) ==
  LET db2 == IF Fails(c) THEN db ELSE DeleteOrderItems(db, c.orderId) IN
  IF Len(c.items) = 0
  THEN St(db2, Finish(c, Ok("Booking updated")))
  ELSE St(db2, [Goto(c, "location") EXCEPT !.k = 1])

updateBooking_location(db, c) ==
  IF Fails(c) \/ Item(c).item_id \notin DOMAIN db.storage_items
  THEN St(db, Finish(c, Throw("Error", "Storage item not found")))
  ELSE St(db, Goto(c, "insertItem"))

\* A variant of updateBooking_insertItem that puts the booking back to
\* pending: C20_UpdateKeepsStatus does not hold of it.
updateBooking_insertItem_reset(db, c) ==
  LET db2 == IF Fails(c) THEN db
             ELSE SetOrderStatus(
                    InsertOrderItem(db, OrderItemRow(c.orderId, Item(c))),
                    c.orderId, "pending")
  IN IF c.k < Len(c.items)
     THEN St(db2, [Goto(c, "location") EXCEPT !.k = c.k + 1])
     ELSE St(db2, Finish(c, Ok("Booking updated")))

\* the insert's error is not looked at
updateBooking_insertItem(db, c) ==
  LET db2 == IF Fails(c) THEN db
             ELSE InsertOrderItem(db, OrderItemRow(c.orderId, Item(c)))
  IN IF c.k < Len(c.items)
     THEN St(db2, [Goto(c, "location") EXCEPT !.k = c.k + 1])
     ELSE St(db2, Finish(c, Ok("Booking updated")))

updateBookingStep(db, c) ==
  CASE c.pc = "start"      -> updateBooking_order(db, c)
    [] c.pc = "user"       -> updateBooking_user(db, c)
    [] c.pc = "delete"     -> updateBooking_delete(db, c)
    [] c.pc = "location"   -> updateBooking_location(db, c)
    [] c.pc = "insertItem" -> updateBooking_insertItem(db, c)

\* --------------------------------------------------------- 6. rejectBooking
rejectBooking_user(db, c) ==
  LET user == SelectUserRole(c) IN
  IF user = NoRow \/ ~IsAdminRole(Field(user, "role"))
  THEN St(db, Finish(c, Throw("ForbiddenException",
                              "Only admins can reject bookings")))
  ELSE St(db, Goto(c, "update"))

\* A variant of rejectBooking_update that also writes the status rejected to
\* the booking's order_items: C15_CheckAvailabilityIsCalculator does not
\* hold of it.
rejectBooking_update_items(db, c) ==
  IF Fails(c)
  THEN St(db, Finish(c, Throw("BadRequestException",
                              "Could not reject the booking")))
  ELSE St(SetOrderItemsStatus(SetOrderStatus(db, c.orderId, "rejected"),
                              c.orderId, "rejected"),
          Finish(c, Ok("Booking rejected")))

rejectBooking_update(db, c) ==
  IF Fails(c)
  THEN St(db, Finish(c, Throw("BadRequestException",
                              "Could not reject the booking")))
  ELSE St(SetOrderStatus(db, c.orderId, "rejected"),
          Finish(c, Ok("Booking rejected")))

rejectBookingStep(db, c) ==
  CASE c.pc = "start"  -> rejectBooking_user(db, c)
    [] c.pc = "update" -> rejectBooking_update(db, c)

\* --------------------------------------------------------- 7. cancelBooking
cancelBooking_order(db, c) ==
  LET order == SelectOrderUserId(db, c) IN
  IF order = NoRow
  THEN St(db, Finish(c, Throw("BadRequestException", "Order not found")))
  ELSE St(db, [Goto(c, "user") EXCEPT !.order = order])

\* the role lookup and the permission checks; order is the row selected above
cancelBooking_user(db, c) ==
  LET userProfile == SelectUserRole(c) IN
  IF userProfile = NoRow
  THEN St(db, Finish(c, Throw("BadRequestException",
                              "User profile not found")))
  ELSE LET isAdmin == IsAdminRole(userProfile.role)
           isOwner == c.order.user_id = c.userId
       IN IF ~isAdmin /\ ~isOwner
          THEN St(db, Finish(c, Throw("ForbiddenException",
                         "You can only cancel your own bookings")))
          ELSE IF ~isAdmin /\ Field(c.order, "status") = "confirmed"
          THEN St(db, Finish(c, Throw("ForbiddenException",
             "You can't cancel a booking that has already been confirmed")))
          ELSE St(db, [Goto(c, "update") EXCEPT !.role = userProfile.role])

cancelBooking_update(db, c) ==
  IF Fails(c)
  THEN St(db, Finish(c, Throw("BadRequestException",
                              "Could not cancel the booking")))
  ELSE LET isAdmin == IsAdminRole(c.role) IN
       St(SetOrderStatus(db, c.orderId,
             IF isAdmin THEN "cancelled by admin" ELSE "cancelled by user"),
          Finish(c, Ok(IF isAdmin THEN "Booking cancelled by admin"
                                  ELSE "Booking cancelled by user")))

cancelBookingStep(db, c) ==
  CASE c.pc = "start"  -> cancelBooking_order(db, c)
    [] c.pc = "user"   -> cancelBooking_user(db, c)
    [] c.pc = "update" -> cancelBooking_update(db, c)

\* --------------------------------------------------------- 8. deleteBooking
deleteBooking_order(db, c) ==
  LET order == SelectOrderUserId(db, c) IN
  IF order = NoRow
  THEN St(db, Finish(c, Throw("BadRequestException", "Order not found")))
  ELSE St(db, [Goto(c, "user") EXCEPT !.order = order])

\* A variant of deleteBooking_user with no role check:
\* C22_RejectDeleteNeedAdmin does not hold of it.
deleteBooking_user_anyone(db, c) ==
  LET userProfile == SelectUserRole(c) IN
  IF userProfile = NoRow
  THEN St(db, Finish(c, Throw("BadRequestException",
                              "User profile not found")))
  ELSE St(db, Goto(c, "deleteItems"))

deleteBooking_user(db, c) ==
  LET userProfile == SelectUserRole(c) IN
  IF userProfile = NoRow
  THEN St(db, Finish(c, Throw("BadRequestException",
                              "User profile not found")))
  ELSE IF ~IsAdminRole(userProfile.role)
  THEN St(db, Finish(c, Throw("ForbiddenException",
                      "You are not allowed to delete this booking")))
  ELSE St(db, Goto(c, "deleteItems"))

\* neither the delete's nor the update's error is looked at
deleteBooking_deleteItems(db, c) ==
  St(IF Fails(c) THEN db ELSE DeleteOrderItems(db, c.orderId),
     Goto(c, "update"))

deleteBooking_update(db, c) ==
  St(IF Fails(c) THEN db ELSE SetOrderStatus(db, c.orderId, "deleted"),
     Finish(c, Ok("Booking deleted")))

deleteBookingStep(db, c) ==
  CASE c.pc = "start"       -> deleteBooking_order(db, c)
    [] c.pc = "user"        -> deleteBooking_user(db, c)
    [] c.pc = "deleteItems" -> deleteBooking_deleteItems(db, c)
    [] c.pc = "update"      -> deleteBooking_update(db, c)

\* ----------------------------------------------------------- 9. returnItems
returnItems_items(db, c) ==
  LET items == IF Fails(c) THEN <<>> ELSE OrderItemsOf(db, c.orderId) IN
  IF items = <<>>
  THEN St(db, Finish(c, Throw("BadRequestException",
                              "No items found for return")))
  ELSE St(db, [Goto(c, "rpc") EXCEPT !.rows = items, !.k = 1])

\* the stored procedure increment_item_quantity(item_id, quantity)
increment_item_quantity(db, item_id, quantity) ==
  IF item_id \in DOMAIN db.storage_items
  THEN [db EXCEPT !.storage_items[item_id].items_number_available = @ + quantity]
  ELSE db

\* the rpc's error is not looked at
returnItems_rpc(db, c) ==
  LET db2 == IF Fails(c) THEN db
             ELSE increment_item_quantity(db, Row(c).item_id, Row(c).quantity)
  IN IF c.k < Len(c.rows)
     THEN St(db2, [Goto(c, "rpc") EXCEPT !.k = c.k + 1])
     ELSE St(db2, Finish(c, Ok("Items returned successfully")))

returnItemsStep(db, c) ==
  CASE c.pc = "start" -> returnItems_items(db, c)
    [] c.pc = "rpc"   -> returnItems_rpc(db, c)

\* ---------------------------------------------------- 10. checkAvailability
\* the query: every order_items row of the item whose range meets the
\* requested one (no filter on status)
checkAvailability_overlappingOrders(db, itemId, startDate, endDate) ==
  SelectSeq(db.order_items,
            LAMBDA r : r.item_id = itemId /\ Overlaps(r, startDate, endDate))

\* what checkAvailability returns
Availability(itemId, availableQuantity, alreadyBookedQuantity, totalQuantity, startDate, endDate) ==
  [status |-> "ok", message |-> "availability", item |-> itemId,
   availableQuantity |-> availableQuantity,
   alreadyBookedQuantity |-> alreadyBookedQuantity,
   totalQuantity |-> totalQuantity,
   startDate |-> startDate, endDate |-> endDate]

\* select quantity of the overlapping order_items, summed
checkAvailability_overlap(db, c) ==
  IF Fails(c)
  THEN St(db, Finish(c, Throw("BadRequestException",
                              "Error checking overlapping bookings")))
  ELSE St(db, [Goto(c, "item") EXCEPT !.booked =
                 SumQuantity(checkAvailability_overlappingOrders(db,
                   Item(c).item_id, Item(c).start_date, Item(c).end_date))])

\* select items_number_total, then the result
checkAvailability_item(db, c) ==
  IF Fails(c) \/ Item(c).item_id \notin DOMAIN db.storage_items
  THEN St(db, Finish(c, Throw("BadRequestException", "Item data not found")))
  ELSE LET total == db.storage_items[Item(c).item_id].items_number_total IN
       St(db, Finish(c, Availability(Item(c).item_id, total - c.booked,
                          c.booked, total,
                          Item(c).start_date, Item(c).end_date)))

checkAvailabilityStep(db, c) ==
  CASE c.pc = "start" -> checkAvailability_overlap(db, c)
    [] c.pc = "item"  -> checkAvailability_item(db, c)

\* ------------------------------------------- calculateAvailableQuantity
\* the calculator's query: the item's pending and confirmed order_items whose
\* range meets [startDate, endDate]
calculateAvailableQuantity_overlapping(db, itemId, startDate, endDate) ==
  SelectSeq(db.order_items,
    LAMBDA r : /\ r.item_id = itemId
               /\ r.status \in {"pending", "confirmed"}
               /\ Overlaps(r, startDate, endDate))

\* total minus the quantities of the item's pending and confirmed order_items
\* whose range meets [startDate, endDate]
calculateAvailableQuantity(db, itemId, startDate, endDate) ==
  db.storage_items[itemId].items_number_total
    - SumQuantity(SelectSeq(db.order_items,
        LAMBDA r : /\ r.item_id = itemId
                   /\ r.status \in {"pending", "confirmed"}
                   /\ Overlaps(r, startDate, endDate)))

\* ------------------------------------------------------------ the handlers
\* one store call of the handler c runs
Step(db, c) ==
  CASE c.op = "createBooking"  -> createBookingStep(db, c)
    [] c.op = "confirmBooking" -> confirmBookingStep(db, c)
    [] c.op = "updateBooking"  -> updateBookingStep(db, c)
    [] c.op = "rejectBooking"  -> rejectBookingStep(db, c)
    [] c.op = "cancelBooking"  -> cancelBookingStep(db, c)
    [] c.op = "deleteBooking"  -> deleteBookingStep(db, c)
    [] c.op = "returnItems"    -> returnItemsStep(db, c)
    [] c.op = "checkAvailability" -> checkAvailabilityStep(db, c)

\* a handler run from c to its return or throw, with no other call between
RECURSIVE Run(_, _)
Run(db, c) ==
  IF c.pc = "done" THEN St(db, c)
  ELSE LET s == Step(db, c) IN Run(s.db, s.c)


\* ------------------------------------------------------------------ inputs
LineItem(i, q, s, e) ==
  [item_id |-> i, quantity |-> q, start_date |-> s, end_date |-> e]

\* the requests the model sends: one and two line items, for one item and
\* for two, over ranges that overlap and ranges that are disjoint
Requests ==
  { <<LineItem("i1", 1, 1, 1)>>,
    <<LineItem("i1", 2, 1, 2)>>,
    <<LineItem("i1", 1, 1, 2), LineItem("i2", 2, 1, 2)>>,
    <<LineItem("i1", 2, 2, 2), LineItem("i1", 1, 2, 2)>> }

NoFault == {0}

\* What last keeps of a completed call: its arguments, its result, and the
\* status the order it names had when the call arrived.
Completed(c, before) ==
  [op |-> c.op, userId |-> c.userId, orderId |-> c.orderId,
   items |-> c.items, fault |-> c.fault, before |-> before, res |-> c.res]

NoCall ==
  [op |-> "none", userId |-> NoItem, orderId |-> 0, items |-> <<>>,
   fault |-> 0, before |-> NoItem, res |-> Running]

StatusOf(db, orderId) ==
  IF orderId \in DOMAIN db.orders THEN db.orders[orderId].status ELSE NoItem

\* ------------------------------------------------------------------- Spec
Init ==
  /\ storage_items = [i \in Items |->
        [items_number_total |-> ItemsNumberTotal[i],
         items_number_available |-> ItemsNumberTotal[i]]]
  /\ orders = <<>>
  /\ order_items = <<>>
  /\ calls = <<>>
  /\ last = NoCall

\* no call is in flight and the last response was delivered
Idle == last = NoCall /\ calls = <<>>

\* the store and last after the call c ran alone
Invoke(c) ==
  LET s == Run(Db, c) IN
  /\ storage_items' = s.db.storage_items
  /\ orders' = s.db.orders
  /\ order_items' = s.db.order_items
  /\ last' = Completed(s.c, StatusOf(Db, c.orderId))
  /\ UNCHANGED calls

\* returnItems is explored while the counters stay within the model's range
WithinExcess(db) ==
  \A i \in Items : db.storage_items[i].items_number_available
                     <= db.storage_items[i].items_number_total + MaxExcess

\* The actions: a handler called by one of the users U, with one of the
\* requests R and the fault F, on one of at most N orders.
CreateBooking(U, R, F, N) ==
  \E u \in U, items \in R, f \in F :
    /\ Len(orders) < N
    /\ Invoke(NewCall("createBooking", u, 0, items, f))

ConfirmBooking(U, F, N) ==
  \E o \in 1..N, u \in U, f \in F :
    Invoke(NewCall("confirmBooking", u, o, <<>>, f))

UpdateBooking(U, R, F, N) ==
  \E o \in 1..N, u \in U, items \in R, f \in F :
    /\ Len(Run(Db, NewCall("updateBooking", u, o, items, f)).db.order_items)
         <= MaxRows
    /\ Invoke(NewCall("updateBooking", u, o, items, f))

RejectBooking(U, F, N) ==
  \E o \in 1..N, u \in U, f \in F :
    Invoke(NewCall("rejectBooking", u, o, <<>>, f))

CancelBooking(U, F, N) ==
  \E o \in 1..N, u \in U, f \in F :
    Invoke(NewCall("cancelBooking", u, o, <<>>, f))

DeleteBooking(U, F, N) ==
  \E o \in 1..N, u \in U, f \in F :
    Invoke(NewCall("deleteBooking", u, o, <<>>, f))

ReturnItems(U, F, N) ==
  \E o \in 1..N, u \in U, f \in F :
    /\ WithinExcess(Run(Db, NewCall("returnItems", u, o, <<>>, f)).db)
    /\ Invoke(NewCall("returnItems", u, o, <<>>, f))

\* the response of the completed call is delivered
Respond ==
  /\ last # NoCall
  /\ last' = NoCall
  /\ UNCHANGED <<storage_items, orders, order_items, calls>>

\* Spec: the ledger.  One owner and one administrator, every request.
Owner  == {"alice"}
Actors == {"alice", "admin"}

Next ==
  \/ Idle /\ CreateBooking(Owner, Requests, NoFault, MaxOrders)
  \/ Idle /\ ConfirmBooking(Actors, NoFault, MaxOrders)
  \/ Idle /\ UpdateBooking(Actors, Requests, NoFault, MaxOrders)
  \/ Idle /\ RejectBooking(Actors, NoFault, MaxOrders)
  \/ Idle /\ CancelBooking(Actors, NoFault, MaxOrders)
  \/ Idle /\ DeleteBooking(Actors, NoFault, MaxOrders)
  \/ Idle /\ ReturnItems(Actors, NoFault, MaxOrders)
  \/ Respond

Spec == Init /\ [][Next]_vars

\* CreateSpec: createBooking against the ledgers that creating, confirming,
\* replacing and deleting line items produce.
Admin == {"admin"}

CreateNext ==
  \/ Idle /\ CreateBooking(Owner, Requests, NoFault, MaxOrders)
  \/ Idle /\ UpdateBooking(Owner, Requests, NoFault, MaxOrders)
  \/ Idle /\ ConfirmBooking(Admin, NoFault, MaxOrders)
  \/ Idle /\ DeleteBooking(Admin, NoFault, MaxOrders)
  \/ Respond

CreateSpec == Init /\ [][CreateNext]_vars

\* AuthSpec: roles and ownership.  Every user creates and acts, one request.
AuthRequests == { <<LineItem("i1", 1, 1, 1)>> }

AuthNext ==
  \/ Idle /\ CreateBooking(Users, AuthRequests, NoFault, MaxAuthOrders)
  \/ Idle /\ ConfirmBooking(Users, NoFault, MaxAuthOrders)
  \/ Idle /\ UpdateBooking(Users, AuthRequests, NoFault, MaxAuthOrders)
  \/ Idle /\ RejectBooking(Users, NoFault, MaxAuthOrders)
  \/ Idle /\ CancelBooking(Users, NoFault, MaxAuthOrders)
  \/ Idle /\ DeleteBooking(Users, NoFault, MaxAuthOrders)
  \/ Idle /\ ReturnItems(Users, NoFault, MaxAuthOrders)
  \/ Respond

AuthSpec == Init /\ [][AuthNext]_vars

\* FaultSpec: store errors.  Any one store call of a handler may fail, in the
\* handlers that write more than one row.
Faults == 0..MaxFault
FaultRequests ==
  { <<LineItem("i1", 1, 1, 1)>>,
    <<LineItem("i1", 1, 1, 2), LineItem("i2", 1, 1, 2)>> }

FaultNext ==
  \/ Idle /\ CreateBooking(Owner, FaultRequests, Faults, MaxFaultOrders)
  \/ Idle /\ ConfirmBooking(Actors, Faults, MaxFaultOrders)
  \/ Idle /\ UpdateBooking(Owner, FaultRequests, Faults, MaxFaultOrders)
  \/ Respond

FaultSpec == Init /\ [][FaultNext]_vars

\* ConcSpec: concurrent requests.  Each store call of a handler in flight is
\* one step; the steps of different handlers interleave freely.
ConcRequests ==
  { <<LineItem("i1", 1, 1, 1)>>, <<LineItem("i1", 2, 1, 2)>> }

\* createBooking calls in flight that have not inserted their order yet
CreatesWaiting ==
  Len(SelectSeq(calls, LAMBDA c : c.op = "createBooking" /\ c.orderId = 0))

\* a request arrives: its handler starts
StartCreateBooking ==
  \E u \in Owner, items \in ConcRequests :
    /\ Len(calls) < MaxCalls
    /\ Len(orders) + CreatesWaiting < MaxOrders
    /\ calls' = Append(calls, NewCall("createBooking", u, 0, items, 0))
    /\ UNCHANGED <<storage_items, orders, order_items, last>>

\* calls without its j-th element
Without(cs, j) == [n \in 1..(Len(cs) - 1) |-> IF n < j THEN cs[n] ELSE cs[n + 1]]

\* the handler in slot j makes its next store call; when it returns or
\* throws, the call leaves and its response is in last
StepSlot(j) ==
  LET s == Step(Db, calls[j]) IN
  /\ storage_items' = s.db.storage_items
  /\ orders' = s.db.orders
  /\ order_items' = s.db.order_items
  /\ IF s.c.pc = "done"
     THEN calls' = Without(calls, j) /\ last' = Completed(s.c, NoItem)
     ELSE calls' = [calls EXCEPT ![j] = s.c] /\ UNCHANGED last

StepCall == \E j \in DOMAIN calls : StepSlot(j)

ConcNext == StartCreateBooking \/ StepCall

ConcSpec == Init /\ [][ConcNext]_vars

\* ================================================================== claims
Store == <<storage_items, orders, order_items>>

\* the actor has an administrative role
Administrative(u) == user_profiles[u].role \in {"admin", "superVera"}

ActiveStatuses == {"pending", "confirmed"}

\* a claim of the ledger: a line item that is pending or confirmed, of a
\* booking that is pending or confirmed
IsClaim(r) ==
  /\ r.status \in ActiveStatuses
  /\ r.order_id \in DOMAIN orders
  /\ orders[r.order_id].status \in ActiveStatuses

\* the quantity of item i claimed on day t
ClaimedOn(i, t) ==
  SumQuantity(SelectSeq(order_items,
    LAMBDA r : r.item_id = i /\ IsClaim(r) /\ r.start_date <= t /\ t <= r.end_date))

\* C1: no oversell.  In every state the handlers reach, for every item and
\* every day, the quantities of the active claims covering the day sum to at
\* most the item's total quantity.
C1_NoOversell ==
  \A i \in Items, t \in 1..MaxDay :
    ClaimedOn(i, t) <= storage_items[i].items_number_total

\* C2: concurrent createBooking calls never reserve more than the total.
\* Once every call in flight has returned, no item is claimed on any day
\* beyond its total quantity, whatever the interleaving of their store calls.
C2_ConcurrentCreatesNoOversell ==
  calls = <<>> =>
    \A i \in Items, t \in 1..MaxDay :
      ClaimedOn(i, t) <= ItemsNumberTotal[i]

\* the requested quantity exceeds what the Availability Calculator reports
C3_Exceeds(item) ==
  item.quantity > calculateAvailableQuantity(Db, item.item_id,
                                             item.start_date, item.end_date)

\* C3: createBooking is all-or-nothing.  When some line item of the request
\* asks for more than is available, the call fails naming an item that
\* lacks availability, and the store is what it was: no order row and none
\* of the request's line items was written.
C3_CreateAllOrNothing ==
  [][ (/\ last'.op = "createBooking"
       /\ \E k \in DOMAIN last'.items : C3_Exceeds(last'.items[k]))
      => /\ last'.res.status = "BadRequestException"
         /\ last'.res.message = "Not enough quantity available for item"
         /\ \E k \in DOMAIN last'.items :
               C3_Exceeds(last'.items[k])
                 /\ last'.res.item = last'.items[k].item_id
         /\ UNCHANGED Store ]_vars

\* C3's case: a two-item request on a ledger that holds a booking, whose
\* first item has capacity and whose second has not, was refused.
C3_Witness ==
  /\ last.op = "createBooking"
  /\ last.res.status = "BadRequestException"
  /\ orders # <<>>
  /\ Len(last.items) = 2
  /\ ~C3_Exceeds(last.items[1])
  /\ C3_Exceeds(last.items[2])
  /\ last.res.item = last.items[2].item_id

\* C4: a store failure after the order row was inserted (the location lookup
\* or the insert of a line item) leaves the store as it was before the call.
C4_CreateFailureRollsBack ==
  [][ (/\ last'.op = "createBooking"
       /\ last'.res.message \in {"Could not fetch location_id for item",
                                 "Could not create order items"})
      => UNCHANGED Store ]_vars

\* C5: the owner, not an administrator, cancelling their confirmed booking
\* gets Forbidden and the booking stays confirmed.
C5_OwnerCannotCancelConfirmed ==
  (/\ last.op = "cancelBooking"
   /\ last.before = "confirmed"
   /\ orders[last.orderId].user_id = last.userId
   /\ ~Administrative(last.userId))
  => /\ last.res.status = "ForbiddenException"
     /\ orders[last.orderId].status = "confirmed"

\* C6: cancelBooking on a pending booking succeeds exactly for the owner and
\* for administrators; the status becomes cancelled by admin for an
\* administrator and cancelled by user otherwise; anyone else gets Forbidden
\* and the booking stays pending.
C6_CancelPending ==
  (last.op = "cancelBooking" /\ last.before = "pending")
  => LET o   == last.orderId
         adm == Administrative(last.userId)
         own == orders[o].user_id = last.userId
     IN /\ (last.res.status = "ok") <=> (adm \/ own)
        /\ adm => orders[o].status = "cancelled by admin"
        /\ (~adm /\ own) => orders[o].status = "cancelled by user"
        /\ (~adm /\ ~own) => /\ last.res.status = "ForbiddenException"
                             /\ orders[o].status = "pending"

\* C6's case: someone who neither owns the pending booking nor administers
\* was refused.
C6_Witness ==
  /\ last.op = "cancelBooking"
  /\ last.before = "pending"
  /\ last.res.status = "ForbiddenException"
  /\ orders[last.orderId].user_id # last.userId
  /\ orders[last.orderId].status = "pending"

Terminal == {"rejected", "cancelled by user", "cancelled by admin", "deleted"}
AllowedTransitions ==
  {<<"pending", x>> : x \in {"confirmed"} \cup Terminal}
    \cup {<<"confirmed", "cancelled by admin">>, <<"confirmed", "deleted">>}

\* C7: a booking starts pending and its status changes only along the
\* allowed graph; confirmBooking and rejectBooking on a booking that is not
\* pending fail.
C7_StatusGraph ==
  /\ (last.op = "createBooking" /\ last.res.status = "ok")
       => orders[last.orderId].status = "pending"
  /\ (last.op \notin {"none", "createBooking"} /\ last.orderId \in DOMAIN orders)
       => \/ orders[last.orderId].status = last.before
          \/ <<last.before, orders[last.orderId].status>> \in AllowedTransitions
  /\ (/\ last.op \in {"confirmBooking", "rejectBooking"}
      /\ last.orderId \in DOMAIN orders
      /\ last.before # "pending")
       => last.res.status # "ok"

\* C8: confirmBooking by an actor without an administrative role fails with
\* an authorization error and changes nothing.
C8_ConfirmNeedsAdmin ==
  [][ (last'.op = "confirmBooking" /\ ~Administrative(last'.userId))
      => /\ last'.res.status \in {"ForbiddenException", "UnauthorizedException"}
         /\ UNCHANGED Store ]_vars

\* the ledger has room for every line item of the order: the active claims
\* that meet the line item's range (the line item among them) sum to at most
\* the item's total
C9_LedgerHasCapacity(o) ==
  \A n \in 1..Len(order_items) :
    order_items[n].order_id = o =>
      calculateAvailableQuantity(Db, order_items[n].item_id,
        order_items[n].start_date, order_items[n].end_date) >= 0

\* C9: confirmBooking accepts a pending booking exactly when the ledger has
\* room for each of its line items, whatever the cached available count.
C9_ConfirmDecidesFromLedger ==
  [][ (last'.op = "confirmBooking" /\ last'.before = "pending")
      => ((last'.res.status = "ok") <=> C9_LedgerHasCapacity(last'.orderId))
    ]_vars

\* C10: a confirmBooking that fails leaves bookings, line items and the
\* available counts as they were.
C10_ConfirmFailureChangesNothing ==
  [][ (last'.op = "confirmBooking" /\ last'.res.status # "ok")
      => UNCHANGED Store ]_vars

\* ------------------------------------------------------------ ConfirmSpec
\* ConfirmSpec: confirmBooking by an administrator on bookings of one and of
\* two line items, of the same item and of different items.
ConfirmRequests ==
  { <<LineItem("i1", 1, 1, 1)>>,
    <<LineItem("i1", 1, 1, 1), LineItem("i1", 1, 2, 2)>>,
    <<LineItem("i1", 1, 1, 2), LineItem("i2", 1, 1, 2)>> }

ConfirmNext ==
  \/ Idle /\ CreateBooking(Owner, ConfirmRequests, NoFault, MaxOrders)
  \/ Idle /\ ConfirmBooking(Admin, NoFault, MaxOrders)
  \/ Respond

ConfirmSpec == Init /\ [][ConfirmNext]_vars

\* the quantity the order o holds of item i
C11_Quantity(o, i) ==
  SumQuantity(SelectSeq(order_items,
                        LAMBDA r : r.order_id = o /\ r.item_id = i))

\* C11: a confirmBooking that succeeds on a pending booking sets the status
\* of the booking and of each of its line items to confirmed and lowers each
\* item's available count by the quantity the booking holds of the item;
\* no other row and no other column changes.
C11_ConfirmEffects ==
  [][ (/\ last'.op = "confirmBooking"
       /\ last'.before = "pending"
       /\ last'.res.status = "ok")
      => LET o == last'.orderId IN
         /\ orders' = [orders EXCEPT ![o].status = "confirmed"]
         /\ order_items' =
              [j \in DOMAIN order_items |->
                 IF order_items[j].order_id = o
                 THEN [order_items[j] EXCEPT !.status = "confirmed"]
                 ELSE order_items[j]]
         /\ storage_items' =
              [i \in Items |->
                 [storage_items[i] EXCEPT !.items_number_available =
                    @ - C11_Quantity(o, i)]] ]_vars

\* C11's case: a pending booking with two line items of the same item was
\* confirmed.
C11_Witness ==
  /\ last.op = "confirmBooking"
  /\ last.before = "pending"
  /\ last.res.status = "ok"
  /\ \E j, k \in DOMAIN order_items :
       /\ j < k
       /\ order_items[j].order_id = last.orderId
       /\ order_items[k].order_id = last.orderId
       /\ order_items[j].item_id = order_items[k].item_id
       /\ order_items[j].status = "confirmed"

\* -------------------------------------------------------- ConcConfirmSpec
\* ConcConfirmSpec: bookings of one line item are created one at a time;
\* confirmBooking calls on different pending bookings run concurrently, each
\* store call one step.
ConcConfirmRequests ==
  { <<LineItem("i1", 1, 1, 1)>>,
    <<LineItem("i2", 1, 1, 1)>>,
    <<LineItem("i2", 1, 2, 2)>> }

\* a confirmBooking call arrives for a pending booking no call in flight names
StartConfirmBooking ==
  \E u \in Admin, o \in DOMAIN orders :
    /\ Len(calls) < MaxCalls
    /\ orders[o].status = "pending"
    /\ \A j \in DOMAIN calls : calls[j].orderId # o
    /\ calls' = Append(calls, NewCall("confirmBooking", u, o, <<>>, 0))
    /\ UNCHANGED <<storage_items, orders, order_items, last>>

ConcConfirmNext ==
  \/ Idle /\ CreateBooking(Owner, ConcConfirmRequests, NoFault, MaxOrders)
  \/ StartConfirmBooking
  \/ StepCall
  \/ Respond

ConcConfirmSpec == Init /\ [][ConcConfirmNext]_vars

\* the quantity of item i in confirmed line items
C12_Confirmed(i) ==
  SumQuantity(SelectSeq(order_items,
                LAMBDA r : r.item_id = i /\ r.status = "confirmed"))

\* C12: concurrent confirmBooking calls on different bookings of an item.
\* Once every call has returned, the confirmed bookings of an item fit its
\* starting available count (the calls did not both succeed where only one
\* fits), and the available count is the starting count minus the
\* quantities of the bookings confirmed (no decrement was lost).
C12_ConcurrentConfirms ==
  calls = <<>> =>
    \A i \in Items :
      /\ C12_Confirmed(i) <= ItemsNumberTotal[i]
      /\ storage_items[i].items_number_available
           = ItemsNumberTotal[i] - C12_Confirmed(i)

\* C13: after every completed operation, each item's available count is its
\* total minus the quantities of its active (pending or confirmed) claims.
C13_CacheMatchesLedger ==
  \A i \in Items :
    storage_items[i].items_number_available
      = storage_items[i].items_number_total
          - SumQuantity(SelectSeq(order_items,
                          LAMBDA r : r.item_id = i /\ IsClaim(r)))

\* --------------------------------------------------------------- AvailSpec
\* checkAvailability run alone on the store db: what it returns
checkAvailability(db, itemId, startDate, endDate, userId) ==
  Run(db, NewCall("checkAvailability", userId, 0,
                  <<LineItem(itemId, 0, startDate, endDate)>>, 0)).c.res

\* the date ranges asked about
Ranges == { <<1, 1>>, <<1, 2>>, <<2, 2>> }

CheckAvailability(U, F) ==
  \E u \in U, i \in Items, r \in Ranges, f \in F :
    Invoke(NewCall("checkAvailability", u, 0,
                   <<LineItem(i, 0, r[1], r[2])>>, f))

\* AvailSpec: availability as the ledger changes.  Bookings of one line item
\* are created, confirmed, rejected, cancelled and deleted, and availability
\* is asked for every item and range.
AvailRequests ==
  { <<LineItem("i1", 1, 1, 1)>>,
    <<LineItem("i1", 1, 1, 2)>>,
    <<LineItem("i1", 2, 2, 2)>>,
    <<LineItem("i2", 1, 1, 2)>> }

AvailNext ==
  \/ Idle /\ CreateBooking(Owner, AvailRequests, NoFault, MaxOrders)
  \/ Idle /\ ConfirmBooking(Admin, NoFault, MaxOrders)
  \/ Idle /\ RejectBooking(Admin, NoFault, MaxOrders)
  \/ Idle /\ CancelBooking(Owner, NoFault, MaxOrders)
  \/ Idle /\ DeleteBooking(Admin, NoFault, MaxOrders)
  \/ Idle /\ CheckAvailability(Owner, NoFault)
  \/ Respond

AvailSpec == Init /\ [][AvailNext]_vars

\* the line items of item i that share a day with [qs, qe]
C14_SharingADay(i, qs, qe) ==
  SelectSeq(order_items,
    LAMBDA r : /\ r.item_id = i
               /\ \E t \in 1..MaxDay :
                    r.start_date <= t /\ t <= r.end_date /\ qs <= t /\ t <= qe)

\* C14: the overlap predicate is closed and symmetric, and the three queries
\* agree.  For every item and range, createBooking's check, checkAvailability
\* and the calculator select the same line items: those whose closed range
\* shares a day with the closed range asked about, whichever of the two
\* ranges is taken as the stored one.
C14_OverlapClosed ==
  \A i \in Items, r \in Ranges :
    /\ OverlappingOrders(Db, i, r[1], r[2]) = C14_SharingADay(i, r[1], r[2])
    /\ checkAvailability_overlappingOrders(Db, i, r[1], r[2])
         = C14_SharingADay(i, r[1], r[2])
    /\ calculateAvailableQuantity_overlapping(Db, i, r[1], r[2])
         = C14_SharingADay(i, r[1], r[2])
    /\ \A n \in DOMAIN order_items :
         Overlaps(order_items[n], r[1], r[2])
           <=> Overlaps([start_date |-> r[1], end_date |-> r[2]],
                        order_items[n].start_date, order_items[n].end_date)

\* C14's case: availability was asked for a range that starts on the day a
\* stored line item ends, the line item having started earlier, and the
\* line item was counted; the ledger also holds a rejected or cancelled
\* booking.
C14_Witness ==
  /\ last.op = "checkAvailability"
  /\ last.res.status = "ok"
  /\ last.res.alreadyBookedQuantity > 0
  /\ \E n \in DOMAIN order_items :
       /\ order_items[n].item_id = last.res.item
       /\ order_items[n].start_date < order_items[n].end_date
       /\ order_items[n].end_date = last.res.startDate
  /\ \A n \in DOMAIN order_items :
       order_items[n].item_id = last.res.item
         => order_items[n].end_date <= last.res.startDate
  /\ \E o \in DOMAIN orders : orders[o].status \in Terminal

\* the quantity of item i in line items of status pending or confirmed that
\* share a day with [qs, qe]
C15_Booked(i, qs, qe) ==
  SumQuantity(SelectSeq(C14_SharingADay(i, qs, qe),
                        LAMBDA r : r.status \in ActiveStatuses))

\* C15: checkAvailability returns the total minus the overlapping pending
\* and confirmed line items, and that sum; its availableQuantity is what
\* calculateAvailableQuantity computes for the same item and range.
C15_CheckAvailabilityIsCalculator ==
  (last.op = "checkAvailability" /\ last.res.status = "ok")
  => LET q == last.items[1] IN
     /\ last.res.alreadyBookedQuantity
          = C15_Booked(q.item_id, q.start_date, q.end_date)
     /\ last.res.availableQuantity
          = storage_items[q.item_id].items_number_total
              - C15_Booked(q.item_id, q.start_date, q.end_date)
     /\ last.res.availableQuantity
          = calculateAvailableQuantity(Db, q.item_id,
                                       q.start_date, q.end_date)

\* C15's case: availability was asked where a line item of a rejected or
\* cancelled booking and one of a confirmed booking overlap the range.
C15_Witness ==
  /\ last.op = "checkAvailability"
  /\ last.res.status = "ok"
  /\ \E n, m \in DOMAIN order_items :
       /\ order_items[n].item_id = last.res.item
       /\ Overlaps(order_items[n], last.res.startDate, last.res.endDate)
       /\ orders[order_items[n].order_id].status
            \in {"rejected", "cancelled by user"}
       /\ order_items[m].item_id = last.res.item
       /\ Overlaps(order_items[m], last.res.startDate, last.res.endDate)
       /\ order_items[m].status = "confirmed"
       /\ orders[order_items[m].order_id].status = "confirmed"

\* C16: a createBooking of one line item succeeds exactly when its quantity
\* is at most the availableQuantity checkAvailability reports for the item
\* and range in the state the call arrives in.
C16_CreateIffAvailable ==
  [][ (last'.op = "createBooking" /\ Len(last'.items) = 1)
      => LET q == last'.items[1] IN
         (last'.res.status = "ok")
           <=> q.quantity <= checkAvailability(Db, q.item_id, q.start_date,
                                q.end_date, last'.userId).availableQuantity
    ]_vars

\* C16's case: with part of the item booked on an overlapping range, a
\* request for one more than checkAvailability reports was refused.
C16_Witness ==
  /\ last.op = "createBooking"
  /\ Len(last.items) = 1
  /\ last.res.status = "BadRequestException"
  /\ LET q == last.items[1]
         a == checkAvailability(Db, q.item_id, q.start_date, q.end_date,
                                last.userId)
     IN /\ a.alreadyBookedQuantity > 0
        /\ a.availableQuantity > 0
        /\ q.quantity = a.availableQuantity + 1

\* the quantity the order o holds of item i on ranges that meet [qs, qe]
C17_Freed(o, i, qs, qe) ==
  SumQuantity(SelectSeq(order_items,
    LAMBDA r : r.order_id = o /\ r.item_id = i /\ Overlaps(r, qs, qe)))

\* C17: after rejectBooking, cancelBooking or deleteBooking succeeds on a
\* pending or confirmed booking, its line items are out of every overlap
\* sum: for every item and range, what checkAvailability and the calculator
\* report rises by the quantity the booking held there.
C17_TerminalFreesCapacity ==
  [][ (/\ last'.op \in {"rejectBooking", "cancelBooking", "deleteBooking"}
       /\ last'.res.status = "ok"
       /\ last'.before \in ActiveStatuses)
      => \A i \in Items, r \in Ranges :
           /\ checkAvailability(Db', i, r[1], r[2], last'.userId).availableQuantity
                = checkAvailability(Db, i, r[1], r[2], last'.userId).availableQuantity
                    + C17_Freed(last'.orderId, i, r[1], r[2])
           /\ calculateAvailableQuantity(Db', i, r[1], r[2])
                = calculateAvailableQuantity(Db, i, r[1], r[2])
                    + C17_Freed(last'.orderId, i, r[1], r[2])
    ]_vars

\* the order_items rows updateBooking writes for the order o and the items
C18_NewRows(o, items) ==
  [k \in DOMAIN items |-> OrderItemRow(o, items[k])]

\* the order_items rows of the orders other than o
C18_OtherRows(db, o) ==
  SelectSeq(db.order_items, LAMBDA r : r.order_id # o)

\* C18: after an updateBooking that succeeds, the booking's line items are
\* exactly the new set, so that none of the previous ones is left to count
\* in an overlap sum; the line items of other bookings are as they were.
C18_UpdateReplaces ==
  [][ (last'.op = "updateBooking" /\ last'.res.status = "ok")
      => /\ OrderItemsOf(Db', last'.orderId)
              = C18_NewRows(last'.orderId, last'.items)
         /\ C18_OtherRows(Db', last'.orderId)
              = C18_OtherRows(Db, last'.orderId)
    ]_vars

\* what is available of the item for the range when the claims of the order
\* o itself are left out
C19_AvailableWithout(o, item) ==
  storage_items[item.item_id].items_number_total
    - SumQuantity(SelectSeq(order_items,
        LAMBDA r : /\ r.order_id # o
                   /\ r.item_id = item.item_id
                   /\ r.status \in ActiveStatuses
                   /\ Overlaps(r, item.start_date, item.end_date)))

\* C19: updateBooking validates the new line items as createBooking does.
\* When a new line item asks for more than is available without the
\* booking's own claims, the update fails and the booking's line items are
\* the ones it had.
C19_UpdateValidates ==
  [][ (/\ last'.op = "updateBooking"
       /\ last'.orderId \in DOMAIN orders
       /\ \E k \in DOMAIN last'.items :
            last'.items[k].quantity
              > C19_AvailableWithout(last'.orderId, last'.items[k]))
      => /\ last'.res.status # "ok"
         /\ OrderItemsOf(Db', last'.orderId) = OrderItemsOf(Db, last'.orderId)
    ]_vars

\* C20: updateBooking leaves the status of the booking as it was (and the
\* orders table with it): a confirmed booking stays confirmed, a pending one
\* pending.
C20_UpdateKeepsStatus ==
  [][ last'.op = "updateBooking" => orders' = orders ]_vars

\* C20's case: a confirmed booking was updated and is still confirmed.
C20_Witness ==
  /\ last.op = "updateBooking"
  /\ last.res.status = "ok"
  /\ last.before = "confirmed"
  /\ orders[last.orderId].status = "confirmed"
  /\ OrderItemsOf(Db, last.orderId) = C18_NewRows(last.orderId, last.items)

\* C21: updateBooking by an actor who neither owns the booking nor has an
\* administrative role fails with Forbidden, and the booking and every line
\* item are as they were.
C21_UpdateNeedsOwnerOrAdmin ==
  [][ (/\ last'.op = "updateBooking"
       /\ last'.orderId \in DOMAIN orders
       /\ ~Administrative(last'.userId)
       /\ orders[last'.orderId].user_id # last'.userId)
      => /\ last'.res.status = "ForbiddenException"
         /\ UNCHANGED Store ]_vars

\* C21's case: a user without an administrative role was refused the update
\* of a booking of another user, which still holds its line item.
C21_Witness ==
  /\ last.op = "updateBooking"
  /\ last.res.status = "ForbiddenException"
  /\ ~Administrative(last.userId)
  /\ orders[last.orderId].user_id # last.userId
  /\ OrderItemsOf(Db, last.orderId) # <<>>

\* C22: rejectBooking and deleteBooking are for administrators.  Called on a
\* booking by an actor whose role is neither admin nor superVera, the owner
\* included, each fails with Forbidden and changes nothing; called by an
\* administrator on a pending booking, the status becomes rejected,
\* respectively deleted.
C22_RejectDeleteNeedAdmin ==
  [][ (/\ last'.op \in {"rejectBooking", "deleteBooking"}
       /\ last'.orderId \in DOMAIN orders)
      => /\ ~Administrative(last'.userId)
              => /\ last'.res.status = "ForbiddenException"
                 /\ UNCHANGED Store
         /\ (Administrative(last'.userId) /\ last'.before = "pending")
              => /\ last'.res.status = "ok"
                 /\ orders'[last'.orderId].status
                      = IF last'.op = "rejectBooking" THEN "rejected"
                                                      ELSE "deleted"
    ]_vars

\* C22's case: the owner, not an administrator, was refused the deletion of
\* their own pending booking.
C22_Witness ==
  /\ last.op = "deleteBooking"
  /\ last.res.status = "ForbiddenException"
  /\ ~Administrative(last.userId)
  /\ orders[last.orderId].user_id = last.userId
  /\ orders[last.orderId].status = "pending"
  /\ OrderItemsOf(Db, last.orderId) # <<>>

\* C23: nothing is removed physically.  After a deleteBooking that succeeds
\* the booking row exists with status deleted, and the line items the
\* booking had are still stored.
C23_DeleteKeepsRows ==
  [][ (last'.op = "deleteBooking" /\ last'.res.status = "ok")
      => /\ Len(orders') = Len(orders)
         /\ orders'[last'.orderId].status = "deleted"
         /\ Len(OrderItemsOf(Db', last'.orderId))
              = Len(OrderItemsOf(Db, last'.orderId))
    ]_vars

\* C24: returnItems by an actor without an administrative role fails with an
\* authorization error and no item's available count changes.
C24_ReturnNeedsAdmin ==
  [][ (last'.op = "returnItems" /\ ~Administrative(last'.userId))
      => /\ last'.res.status \in {"ForbiddenException", "UnauthorizedException"}
         /\ storage_items' = storage_items ]_vars

\* -------------------------------------------------------------- NumberSpec
\* NumberSpec: the order number.  createBooking with the random part of the
\* number drawn from 0..MaxRandom; any store call of it may fail.
CreateBookingNumbered(U, R, F, N) ==
  \E u \in U, items \in R, f \in F, x \in 0..MaxRandom :
    /\ Len(orders) < N
    /\ Invoke([NewCall("createBooking", u, 0, items, f) EXCEPT !.random = x])

NumberNext ==
  \/ Idle /\ CreateBookingNumbered(Owner, AvailRequests, Faults, MaxOrders)
  \/ Respond

NumberSpec == Init /\ [][NumberNext]_vars

\* C25: no two bookings share a booking number.
C25_NumbersUnique ==
  \A o1, o2 \in DOMAIN orders :
    o1 # o2 => orders[o1].order_number # orders[o2].order_number

\* --------------------------------------------------------------- InputSpec
\* InputSpec: createBooking on well-formed and malformed line items: a range
\* that ends before it starts, a quantity of zero, a negative quantity.
InputRequests ==
  { <<LineItem("i1", 1, 1, 2)>>,
    <<LineItem("i1", 1, 2, 1)>>,
    <<LineItem("i1", 0, 1, 1)>>,
    <<LineItem("i2", -1, 1, 2)>>,
    <<LineItem("i1", 1, 1, 1), LineItem("i2", 1, 2, 1)>> }

InputNext ==
  \/ Idle /\ CreateBooking(Owner, InputRequests, NoFault, MaxOrders)
  \/ Idle /\ DeleteBooking(Admin, NoFault, MaxOrders)
  \/ Respond

InputSpec == Init /\ [][InputNext]_vars

C26_Malformed(items) ==
  \E k \in DOMAIN items :
    items[k].start_date > items[k].end_date \/ items[k].quantity <= 0

\* C26: createBooking answers a request holding a line item whose start_date
\* is after its end_date, or whose quantity is not positive, with a bad
\* request error and leaves the store as it was.
C26_RejectsMalformed ==
  [][ (last'.op = "createBooking" /\ C26_Malformed(last'.items))
      => /\ last'.res.status = "BadRequestException"
         /\ Store' = Store ]_vars

\* C27: every stored line item has total_days at least 1; a line item that
\* starts and ends on the same day has total_days 1, any other one the days
\* from its start_date to its end_date.
C27_TotalDaysAtLeastOne ==
  \A k \in DOMAIN order_items :
    LET r == order_items[k]
    IN  /\ r.total_days >= 1
        /\ r.start_date = r.end_date => r.total_days = 1
        /\ r.start_date < r.end_date => r.total_days = r.end_date - r.start_date

\* C29: updateBooking of an existing booking by an actor of role superVera
\* who does not own it is not refused with Forbidden.
C29_SuperVeraMayUpdate ==
  [][ (/\ last'.op = "updateBooking"
       /\ last'.orderId \in DOMAIN orders
       /\ user_profiles[last'.userId].role = "superVera"
       /\ orders[last'.orderId].user_id # last'.userId)
      => last'.res.status # "ForbiddenException" ]_vars

\* C30: in every state each item's items_number_available is at least 0 and
\* at most its items_number_total.
C30_AvailableWithinTotal ==
  \A i \in Items :
    /\ 0 <= storage_items[i].items_number_available
    /\ storage_items[i].items_number_available
         <= storage_items[i].items_number_total

\* ---------------------------------------------------------------- LiveSpec
\* LiveSpec: the seven handlers in flight together, on the same item and the
\* same bookings.  A request comes in on a connection, and a connection has
\* one request in flight: the owner's connection carries createBooking,
\* updateBooking and cancelBooking, the administrator's carries
\* confirmBooking, rejectBooking, deleteBooking and returnItems.
OwnerConn == "c1"
AdminConn == "c2"
Connections == {OwnerConn, AdminConn}

LiveRequests == { <<LineItem("i2", 1, 1, 1)>> }

InFlight(conn) == \E j \in DOMAIN calls : calls[j].conn = conn

\* the request c arrives on the connection conn: its handler starts
Start(conn, c) ==
  /\ ~InFlight(conn)
  /\ calls' = Append(calls, [c EXCEPT !.conn = conn])
  /\ UNCHANGED <<storage_items, orders, order_items, last>>

\* the handler of the request on conn makes its next store call: the runtime
\* resumes it when the store has answered
StepCallOf(conn) ==
  \E j \in DOMAIN calls : calls[j].conn = conn /\ StepSlot(j)

LiveNext ==
  \/ \E u \in Owner, items \in LiveRequests :
       /\ Len(orders) < MaxAuthOrders
       /\ Start(OwnerConn, NewCall("createBooking", u, 0, items, 0))
  \/ \E u \in Owner, o \in DOMAIN orders, items \in LiveRequests :
       Start(OwnerConn, NewCall("updateBooking", u, o, items, 0))
  \/ \E u \in Owner, o \in DOMAIN orders :
       Start(OwnerConn, NewCall("cancelBooking", u, o, <<>>, 0))
  \/ \E u \in Admin, o \in DOMAIN orders :
       Start(AdminConn, NewCall("confirmBooking", u, o, <<>>, 0))
  \/ \E u \in Admin, o \in DOMAIN orders :
       Start(AdminConn, NewCall("rejectBooking", u, o, <<>>, 0))
  \/ \E u \in Admin, o \in DOMAIN orders :
       Start(AdminConn, NewCall("deleteBooking", u, o, <<>>, 0))
  \/ \E u \in Admin, o \in DOMAIN orders :
       /\ WithinExcess(Db)
       /\ Start(AdminConn, NewCall("returnItems", u, o, <<>>, 0))
  \/ \E conn \in Connections : StepCallOf(conn)

\* every handler in flight is resumed once the store has answered its call
LiveFairness == \A conn \in Connections : WF_vars(StepCallOf(conn))

LiveSpec == Init /\ [][LiveNext]_vars /\ LiveFairness

=============================================================================
